---------------------------- MODULE Spec2Model ----------------------------
(***************************************************************************)
(* A model of mastodon_bot.py: the rate limiter (_handle_rate_limit), the  *)
(* response generator (generate_entertainment_response), the two scheduler *)
(* loops (run_forever, schedule_auto_posts), the replied-DM store, one     *)
(* call of monitor_hashtag step by step, and the health endpoint.          *)
(*                                                                         *)
(* Time is the wall clock time.time() in whole seconds.  A sleep of d      *)
(* seconds advances the clock by d plus an overshoot of 0..MaxJitter       *)
(* seconds: asyncio.sleep never returns early.                             *)
(***************************************************************************)
EXTENDS Integers, Sequences, FiniteSets, TLC

\* ------------------------------------------------------------------ bounds
\* largest overshoot of one sleep, in seconds
MaxJitter == 1
\* largest max_retries argument tried
MaxRetriesArg == 4
\* most media attachments of a status
MaxMedia == 2
\* the loop starts no iteration later than this many seconds after midnight
HorizonAfterMidnight == 245
\* the process is stopped at most this many times
MaxCrashes == 2
\* most posts of one search_hashtag result (line 258 asks for at most 5)
MaxPosts == 2

\* ------------------------------------------------------- program constants
max_requests_per_minute == 30

VARIABLES
    time_diff,      \* time.time() - self.last_request_time, saturated at 60: line 103
                    \* asks only whether it is >= 60, line 109 reads it only below 60
    request_count,  \* self.request_count
    win_age,        \* history: seconds since the request that opened the observed
                    \* window, -1 when no window is open
    win_count,      \* history: requests let through in the observed window so far
    \* generate_entertainment_response, one call of it
    g_pc,           \* where the call is: "clean", "lookup", "download", "loop",
                    \* "except", "returned", "raised"
    g_args,         \* its arguments: [max_retries, has_status, n_media]
    g_fetched,      \* the outcome of each _download_image so far, in order: TRUE is an image
    g_attempt,      \* the loop variable attempt
    g_outcomes,     \* history: each generate_content call, [ok, text, images]
    g_sleeps,       \* history: the seconds of each asyncio.sleep of the call, in order
    g_result,       \* what the call returned: [kind |-> "unset" | "str" | "none", text]
    \* the scheduler loop
    clock,          \* time.time(), whole seconds; local midnight is at Midnight
    loop,           \* the loop that runs: "run_forever" or "schedule_auto_posts"
    pc,             \* where the loop is: "start", "head", "post", "hashtags", "dms",
                    \* "likes", "reset", "sleep", "failed", "done"
    is_running,     \* self.is_running
    cfg,            \* [auto_post_interval, max_daily_posts, dm_enabled, reply_interval]
    current_time,   \* the local current_time of the iteration
    last_post_time, \* self.last_post_time
    post_count,     \* self.post_count
    first_run,      \* the local first_run of schedule_auto_posts
    hashtag_idx,    \* how many of hashtags_to_monitor the for loop of line 238 has done
    iter_steps,     \* history: the steps of the iteration in flight, in order
    hist,           \* history: [iterations, posts, resets: how many so far;
                    \* post_failed, failed: whether a post, any step, has raised;
                    \* absorbed: whether a monitor_hashtag of the iteration in
                    \* flight has caught an exception; likes: how many times
                    \* auto-like was called in the observed 300-second window;
                    \* prev_post: when the iteration of the last post started,
                    \* the time of construction before any post]
    \* the replied-DM store
    dm_inbox,       \* the ids of the direct messages a scan finds
    replied_dms,    \* self.replied_dms
    dm_file,        \* the ids persisted in dm_context.json
    dm_replies,     \* history: how many replies each id has been sent
    dm_pc,          \* where handle_direct_messages is: "idle", "scan", "sent"; "down"
                    \* when the process is stopped
    dm_todo,        \* the ids the scan in flight has still to look at
    dm_cur,         \* the id whose reply was sent and is not yet recorded, 0: none
    crashes,        \* history: how many times the process was stopped
    \* monitor_hashtag, one call of it
    m_pc,           \* where the call is: "idle", "limit", "search", "posts",
                    \* "generate", "pause", "returned"
    m_posts,        \* how many posts of the search the for loop of line 260 has
                    \* still to look at
    m_trace,        \* history: the calls the call has made, in order: "limit" for
                    \* _handle_rate_limit, "search", "generate", "reply"
    \* the health endpoint
    h_listening,    \* whether the site of start_health_check listens on localhost:8080
    h_response      \* history: the answer to the last GET /health, "none" before any

rlVars == <<time_diff, request_count, win_age, win_count>>
genVars == <<g_pc, g_args, g_fetched, g_attempt, g_outcomes, g_sleeps, g_result>>
loopVars == <<clock, loop, pc, is_running, cfg, current_time, last_post_time,
              post_count, first_run, hashtag_idx, iter_steps, hist>>
dmVars == <<dm_inbox, replied_dms, dm_file, dm_replies, dm_pc, dm_todo, dm_cur, crashes>>
monVars == <<m_pc, m_posts, m_trace>>
healthVars == <<h_listening, h_response>>
vars == <<rlVars, genVars, loopVars, dmVars, monVars, healthVars>>
notRLVars == <<genVars, loopVars, dmVars, monVars, healthVars>>
notGenVars == <<rlVars, loopVars, dmVars, monVars, healthVars>>
notLoopVars == <<rlVars, genVars, monVars, healthVars>>
notDmVars == <<rlVars, genVars, loopVars, monVars, healthVars>>

Jitter == 0..MaxJitter
Min(a, b) == IF a < b THEN a ELSE b

\* ------------------------------------------------------------ rate limiter
\* a spacing of one second
RequestSpacing_OneSecond == 2 - 1

\* the fixed spacing of line 117: await asyncio.sleep(2)
RequestSpacing == 2

\* One whole call of _handle_rate_limit, started when time.time() -
\* last_request_time is td and request_count is count; j1 and j2 are the overshoots
\* of its two sleeps.  The result: how long the call took until request_count was
\* incremented, and the counters at that moment.
HandleRateLimit(td, count, j1, j2) ==
    LET reset     == td >= 60
        count1    == IF reset THEN 0 ELSE count
        wait_time == 60 - td
        waits     == count1 >= max_requests_per_minute /\ wait_time > 0
        slept1    == IF waits THEN wait_time + j1 ELSE 0
        count2    == IF waits THEN 0 ELSE count1
        slept2    == RequestSpacing + j2
    IN  [took          |-> slept1 + slept2,
         time_diff     |-> IF reset \/ waits THEN slept2 ELSE Min(td + slept2, 60),
         request_count |-> count2 + 1,
         waited        |-> waits]

\* d seconds pass for the observed window, which closes when it is 60 seconds old
AgeWindow(age, d) == IF age = -1 \/ age + d >= 60 THEN -1 ELSE age + d

\* A request is let through when the observed window has the age `age`.  Any
\* request may open a window when none is open; a request within 60 seconds of
\* the opening request is counted.  A window that holds k requests holds the
\* same k requests when it is moved to start at its first request, so windows
\* opened at a request cover every rolling 60-second window.
ObserveRequest(age) ==
    \/ /\ age = -1
       /\ win_age' = 0
       /\ win_count' = 1
    \/ /\ age = -1
       /\ win_age' = -1
       /\ win_count' = 0
    \/ /\ age # -1
       /\ win_age' = age
       /\ win_count' = win_count + 1

\* a caller awaits _handle_rate_limit and the call runs to its end
RateLimitCall ==
    \E j1 \in Jitter, j2 \in Jitter :
       LET r == HandleRateLimit(time_diff, request_count, j1, j2)
       IN  /\ time_diff' = r.time_diff
           /\ request_count' = r.request_count
           /\ ObserveRequest(AgeWindow(win_age, r.took))
           /\ UNCHANGED notRLVars

\* one second passes between two calls of the caller
CallerIdle ==
    /\ time_diff' = Min(time_diff + 1, 60)
    /\ win_age' = AgeWindow(win_age, 1)
    /\ win_count' = IF win_age' = -1 THEN 0 ELSE win_count
    /\ request_count' = request_count
    /\ UNCHANGED notRLVars

\* __init__ sets last_request_time = 0 and request_count = 0; time.time() is far
\* beyond 60
RLStart ==
    /\ time_diff = 60
    /\ request_count = 0
    /\ win_age = -1
    /\ win_count = 0

\* ------------------------------------------------------ response generator
\* Texts are sequences of characters; "a" stands for any character str.strip()
\* keeps, " " and "\n" for the whitespace it removes.
Whitespace == {" ", "\n"}
Rep(c, n) == [i \in 1..n |-> c]

\* self.post_config["max_length"] is 240; line 180 repeats the number
MaxLength == 240

\* text[:n]
Take(text, n) == SubSeq(text, 1, Min(Len(text), n))

\* text.strip()
Strip(text) ==
    LET kept == {i \in 1..Len(text) : text[i] \notin Whitespace}
    IN  IF kept = {} THEN <<>>
        ELSE SubSeq(text, CHOOSE i \in kept : \A k \in kept : i <= k,
                          CHOOSE i \in kept : \A k \in kept : i >= k)

\* line 180: response.text[:240].strip()
ReplyOf(text) == Strip(Take(text, MaxLength))

\* line 188: 48 characters, the first and the last of them emoji
FallbackText == Rep("a", 48)

\* what self.model.generate_content may answer with
ResponseTexts ==
    { <<>>,
      <<"a", "a">>,
      <<" ", "a", " ", "a", "\n">>,
      Rep(" ", 3),
      Rep("a", MaxLength),
      Rep("a", MaxLength + 1),
      Rep("a", MaxLength - 2) \o <<" ", " ", "a">>,
      Rep(" ", MaxLength) \o <<"a">> }

Unset == [kind |-> "unset", text |-> <<>>]
NoneValue == [kind |-> "none", text |-> <<>>]
Str(text) == [kind |-> "str", text |-> text]

\* the images list of lines 125-133: the attachments whose download gave an image
Images == {i \in 1..Len(g_fetched) : g_fetched[i]}

GenIdle ==
    /\ g_pc = "idle"
    /\ g_args = [max_retries |-> 3, has_status |-> FALSE, n_media |-> 0]
    /\ g_fetched = <<>>
    /\ g_attempt = 0
    /\ g_outcomes = <<>>
    /\ g_sleeps = <<>>
    /\ g_result = Unset

\* a caller calls generate_entertainment_response(post_text, status, max_retries)
GenCall(max_retries, has_status, n_media) ==
    /\ g_pc = "clean"
    /\ g_args = [max_retries |-> max_retries, has_status |-> has_status,
                 n_media |-> n_media]
    /\ g_fetched = <<>>
    /\ g_attempt = 0
    /\ g_outcomes = <<>>
    /\ g_sleeps = <<>>
    /\ g_result = Unset

\* line 122: clean_text = self._clean_html(post_text), outside any try
GenClean ==
    /\ g_pc = "clean"
    /\ \/ g_pc' = (IF g_args.has_status THEN "lookup" ELSE "loop")
       \/ g_pc' = "raised"
    /\ UNCHANGED <<g_args, g_fetched, g_attempt, g_outcomes, g_sleeps, g_result>>
    /\ UNCHANGED notGenVars

\* line 127: media_attachments = self._get_media_attachments(status), outside any try
GenLookup ==
    /\ g_pc = "lookup"
    /\ \/ g_pc' = (IF g_args.n_media > 0 THEN "download" ELSE "loop")
       \/ g_pc' = "raised"
    /\ UNCHANGED <<g_args, g_fetched, g_attempt, g_outcomes, g_sleeps, g_result>>
    /\ UNCHANGED notGenVars

\* lines 128-133: one turn of the loop over the attachments; _download_image
\* gives an image or None
GenDownload ==
    /\ g_pc = "download"
    /\ \E image \in BOOLEAN : g_fetched' = Append(g_fetched, image)
    /\ g_pc' = (IF Len(g_fetched') < g_args.n_media THEN "download" ELSE "loop")
    /\ UNCHANGED <<g_args, g_attempt, g_outcomes, g_sleeps, g_result>>
    /\ UNCHANGED notGenVars

\* a wait of ten seconds before every attempt
AttemptWait_Ten == 5 + 5

\* the wait of line 155 before every attempt
AttemptWait == 5

\* lines 153-180: one turn of the retry loop whose generate_content call returns
\* a response with the text `text`
GenAttemptOk(text) ==
    /\ g_pc = "loop"
    /\ g_attempt < g_args.max_retries
    /\ g_sleeps' = Append(g_sleeps, AttemptWait)
    /\ g_outcomes' = Append(g_outcomes, [ok |-> TRUE, text |-> text, images |-> Images])
    /\ g_result' = Str(ReplyOf(text))
    /\ g_pc' = "returned"
    /\ UNCHANGED <<g_args, g_fetched, g_attempt>>
    /\ UNCHANGED notGenVars

\* lines 153-181: one turn of the retry loop whose generate_content call (or the
\* read of response.text) raises
GenAttemptFail ==
    /\ g_pc = "loop"
    /\ g_attempt < g_args.max_retries
    /\ g_sleeps' = Append(g_sleeps, AttemptWait)
    /\ g_outcomes' = Append(g_outcomes, [ok |-> FALSE, text |-> <<>>, images |-> Images])
    /\ g_pc' = "except"
    /\ UNCHANGED <<g_args, g_fetched, g_attempt, g_result>>
    /\ UNCHANGED notGenVars

\* the handler retries after the last attempt too
Retries_OffByOne(attempt, max_retries) == attempt < max_retries

\* line 182: whether the handler retries
Retries(attempt, max_retries) == attempt < max_retries - 1

\* lines 182-185: the handler waits 10 * (attempt + 1) seconds and the loop goes on
GenBackoff ==
    /\ g_pc = "except"
    /\ Retries(g_attempt, g_args.max_retries)
    /\ g_sleeps' = Append(g_sleeps, 10 * (g_attempt + 1))
    /\ g_attempt' = g_attempt + 1
    /\ g_pc' = "loop"
    /\ UNCHANGED <<g_args, g_fetched, g_outcomes, g_result>>
    /\ UNCHANGED notGenVars

\* lines 186-188: the handler of the last attempt returns the fallback text
GenFallback ==
    /\ g_pc = "except"
    /\ ~Retries(g_attempt, g_args.max_retries)
    /\ g_result' = Str(FallbackText)
    /\ g_pc' = "returned"
    /\ UNCHANGED <<g_args, g_fetched, g_attempt, g_outcomes, g_sleeps>>
    /\ UNCHANGED notGenVars

\* line 153 with range(max_retries) used up: the function body ends, which
\* returns None
GenLoopEnd ==
    /\ g_pc = "loop"
    /\ g_attempt >= g_args.max_retries
    /\ g_result' = NoneValue
    /\ g_pc' = "returned"
    /\ UNCHANGED <<g_args, g_fetched, g_attempt, g_outcomes, g_sleeps>>
    /\ UNCHANGED notGenVars

\* ------------------------------------------------------ replied-DM store
\* the ids of direct messages
DmIds == {1, 2}

\* the messages of a scan that get a reply: those not in the replied set
Unreplied(found, replied) == found \ replied

DmIdle(inbox) ==
    /\ dm_inbox = inbox
    /\ replied_dms = {}
    /\ dm_file = {}
    /\ dm_replies = [i \in DmIds |-> 0]
    /\ dm_pc = "idle"
    /\ dm_todo = {}
    /\ dm_cur = 0
    /\ crashes = 0

\* one step of handle_direct_messages at a time, and the process stopping and
\* starting again

\* a new direct message reaches the account
DmArrive(id) ==
    /\ id \notin dm_inbox
    /\ dm_inbox' = dm_inbox \cup {id}
    /\ UNCHANGED <<replied_dms, dm_file, dm_replies, dm_pc, dm_todo, dm_cur, crashes>>
    /\ UNCHANGED notDmVars

\* handle_direct_messages starts: it scans for the direct messages
DmScan ==
    /\ dm_pc = "idle"
    /\ dm_pc' = "scan"
    /\ dm_todo' = dm_inbox
    /\ UNCHANGED <<dm_inbox, replied_dms, dm_file, dm_replies, dm_cur, crashes>>
    /\ UNCHANGED notDmVars

\* the scan looks at the message id: it sends a reply unless id is in replied_dms
DmReply(id) ==
    /\ dm_pc = "scan"
    /\ id \in dm_todo
    /\ dm_todo' = dm_todo \ {id}
    /\ IF id \in Unreplied({id}, replied_dms)
       THEN /\ dm_replies' = [dm_replies EXCEPT ![id] = @ + 1]
            /\ dm_cur' = id
            /\ dm_pc' = "sent"
       ELSE UNCHANGED <<dm_replies, dm_cur, dm_pc>>
    /\ UNCHANGED <<dm_inbox, replied_dms, dm_file, crashes>>
    /\ UNCHANGED notDmVars

\* record(id) after the reply was sent: the id is added to the set and persisted
DmRecord ==
    /\ dm_pc = "sent"
    /\ replied_dms' = replied_dms \cup {dm_cur}
    /\ dm_file' = dm_file \cup {dm_cur}
    /\ dm_cur' = 0
    /\ dm_pc' = "scan"
    /\ UNCHANGED <<dm_inbox, dm_replies, dm_todo, crashes>>
    /\ UNCHANGED notDmVars

\* the scan has looked at every message: handle_direct_messages returns
DmDone ==
    /\ dm_pc = "scan"
    /\ dm_todo = {}
    /\ dm_pc' = "idle"
    /\ UNCHANGED <<dm_inbox, replied_dms, dm_file, dm_replies, dm_todo, dm_cur, crashes>>
    /\ UNCHANGED notDmVars

\* the process is stopped, wherever it is: only dm_context.json survives
ProcessStop ==
    /\ dm_pc # "down"
    /\ crashes < MaxCrashes
    /\ crashes' = crashes + 1
    /\ dm_pc' = "down"
    /\ replied_dms' = {}
    /\ dm_todo' = {}
    /\ dm_cur' = 0
    /\ UNCHANGED <<dm_inbox, dm_file, dm_replies>>
    /\ UNCHANGED notDmVars

\* lines 82-84: the process starts, __init__ sets replied_dms = set() and
\* _load_dm_context loads the persisted ids
ProcessStart ==
    /\ dm_pc = "down"
    /\ replied_dms' = {} \cup dm_file
    /\ dm_pc' = "idle"
    /\ UNCHANGED <<dm_inbox, dm_file, dm_replies, dm_todo, dm_cur, crashes>>
    /\ UNCHANGED notDmVars

\* ---------------------------------------------------------- scheduler loop
Midnight == 24 * 3600
\* datetime.now().hour and .minute at time t
Hour(t) == (t % (24 * 3600)) \div 3600
Minute(t) == (t % 3600) \div 60

\* line 94: three hashtags
NumHashtags == 3
\* the seconds an awaited call to the social network takes
CallSeconds == {1}
\* the seconds one monitor_hashtag may take: its _handle_rate_limit sleeps 2 s;
\* a reply adds the 5 s of one generation attempt and the 30 s of line 265
HashtagSeconds == {2, 37}

\* __init__ (lines 68-95) at time t, the loop `which` about to be started with
\* the configuration c
LoopStart(which, t, c) ==
    /\ clock = t
    /\ loop = which
    /\ pc = "start"
    /\ is_running = FALSE
    /\ cfg = c
    /\ current_time = 0
    /\ last_post_time = t
    /\ post_count = 0
    /\ first_run = FALSE
    /\ hashtag_idx = 0
    /\ iter_steps = <<>>
    /\ hist = [iterations |-> 0, posts |-> 0, resets |-> 0,
               post_failed |-> FALSE, failed |-> FALSE, absorbed |-> FALSE,
               likes |-> 0, prev_post |-> t]

\* lines 222-223 of run_forever, lines 191-192 of schedule_auto_posts
LoopEnter ==
    /\ pc = "start"
    /\ pc' = "head"
    /\ is_running' = (loop = "run_forever")
    /\ first_run' = (loop = "schedule_auto_posts")
    /\ UNCHANGED <<clock, loop, cfg, current_time, last_post_time, post_count,
                   hashtag_idx, iter_steps, hist>>
    /\ UNCHANGED <<notLoopVars, dmVars>>

\* run_forever loops with while True as schedule_auto_posts does
LoopCondition_WhileTrue == loop \in {"schedule_auto_posts", "run_forever"}

\* line 225: while self.is_running; line 193: while True
LoopCondition == loop = "schedule_auto_posts" \/ is_running

\* lines 225-227, 193-195: the loop condition and the read of the clock
LoopHead ==
    /\ pc = "head"
    /\ LoopCondition => clock < Midnight + HorizonAfterMidnight
    /\ IF LoopCondition
       THEN /\ pc' = "post"
            /\ current_time' = clock
            /\ hashtag_idx' = 0
            /\ iter_steps' = <<>>
            /\ hist' = [hist EXCEPT !.iterations = @ + 1, !.absorbed = FALSE]
       ELSE /\ pc' = "done"
            /\ UNCHANGED <<current_time, hashtag_idx, iter_steps, hist>>
    /\ UNCHANGED <<clock, loop, is_running, cfg, last_post_time, post_count, first_run>>
    /\ UNCHANGED <<notLoopVars, dmVars>>

\* run_forever handles the DMs before it monitors the hashtags
StepAfter_DmsFirst(which, step) ==
    IF which = "run_forever"
    THEN CASE step = "post" -> "dms"
           [] step = "dms" -> "hashtags"
           [] step = "hashtags" -> "reset"
           [] step = "reset" -> "sleep"
    ELSE CASE step = "post" -> "dms"
           [] step = "dms" -> "likes"
           [] step = "likes" -> "sleep"

\* the order of the steps of one iteration: lines 229-248 of run_forever, lines
\* 197-215 of schedule_auto_posts
StepAfter(which, step) ==
    IF which = "run_forever"
    THEN CASE step = "post" -> "hashtags"
           [] step = "hashtags" -> "dms"
           [] step = "dms" -> "reset"
           [] step = "reset" -> "sleep"
    ELSE CASE step = "post" -> "dms"
           [] step = "dms" -> "likes"
           [] step = "likes" -> "sleep"

\* what a step raises leaves the loop
OnError_Propagates == "done"

\* lines 250-252, 217-219: except Exception catches what a step raises
OnError == "failed"

\* the post is due only when more than the interval has passed
PostDue_Strict ==
    \/ loop = "schedule_auto_posts" /\ first_run
    \/ current_time - last_post_time > cfg.auto_post_interval

\* the post is due when half the interval has passed
PostDue_HalfInterval ==
    \/ loop = "schedule_auto_posts" /\ first_run
    \/ current_time - last_post_time >= cfg.auto_post_interval \div 2

\* line 230; line 198 with first_run
PostDue ==
    \/ loop = "schedule_auto_posts" /\ first_run
    \/ current_time - last_post_time >= cfg.auto_post_interval

\* the cap itself still lets a post through
UnderDailyCap_Inclusive(count, cap) == count <= cap

\* line 231, line 199
UnderDailyCap(count, cap) == count < cap

\* lines 230-235, 198-204: the post is not due, or the daily cap is reached
PostSkip ==
    /\ pc = "post"
    /\ ~(PostDue /\ UnderDailyCap(post_count, cfg.max_daily_posts))
    /\ pc' = StepAfter(loop, "post")
    /\ iter_steps' = Append(iter_steps, "post_check")
    /\ first_run' = (first_run /\ ~PostDue)
    /\ UNCHANGED <<clock, loop, is_running, cfg, current_time, last_post_time,
                   post_count, hashtag_idx, hist>>
    /\ UNCHANGED <<notLoopVars, dmVars>>

\* the bookkeeping of lines 233-234 is done before the call of line 232
AfterPost_Eager(returned, old, new) == new

\* lines 232-234, 200-202: the two assignments follow the awaited call, and run
\* only when it returns
AfterPost(returned, old, new) == IF returned THEN new ELSE old

\* lines 230-235, 198-204: create_scheduled_post returns
PostOk ==
    /\ pc = "post"
    /\ PostDue /\ UnderDailyCap(post_count, cfg.max_daily_posts)
    /\ \E d \in CallSeconds : clock' = clock + d
    /\ last_post_time' = AfterPost(TRUE, last_post_time, current_time)
    /\ post_count' = AfterPost(TRUE, post_count, post_count + 1)
    /\ first_run' = FALSE
    /\ pc' = StepAfter(loop, "post")
    /\ iter_steps' = iter_steps \o <<"post_check", "post">>
    /\ hist' = [hist EXCEPT !.posts = @ + 1, !.prev_post = current_time]
    /\ UNCHANGED <<loop, is_running, cfg, current_time, hashtag_idx>>
    /\ UNCHANGED <<notLoopVars, dmVars>>

\* lines 232, 200: create_scheduled_post raises
PostRaises ==
    /\ pc = "post"
    /\ PostDue /\ UnderDailyCap(post_count, cfg.max_daily_posts)
    /\ \E d \in CallSeconds : clock' = clock + d
    /\ last_post_time' = AfterPost(FALSE, last_post_time, current_time)
    /\ post_count' = AfterPost(FALSE, post_count, post_count + 1)
    /\ pc' = OnError
    /\ iter_steps' = Append(iter_steps, "post_check")
    /\ hist' = [hist EXCEPT !.post_failed = TRUE, !.failed = TRUE]
    /\ UNCHANGED <<loop, is_running, cfg, current_time, first_run, hashtag_idx>>
    /\ UNCHANGED <<notLoopVars, dmVars>>

\* what the body of monitor_hashtag raises reaches run_forever
HashtagOnError_Surfaces == OnError

\* lines 267-268: monitor_hashtag catches what its body raises and returns, and
\* the for loop of line 238 goes on
HashtagOnError == "hashtags"

\* lines 238-239 and 254-268: monitor_hashtag for the next hashtag, whose body
\* (the rate-limit wait, the search, a response, a reply) runs through or raises
MonitorHashtag ==
    /\ pc = "hashtags"
    /\ hashtag_idx < NumHashtags
    /\ \E d \in HashtagSeconds : clock' = clock + d
    /\ hashtag_idx' = hashtag_idx + 1
    /\ iter_steps' = Append(iter_steps, "hashtag")
    /\ \E raised \in BOOLEAN :
          /\ pc' = (IF raised THEN HashtagOnError ELSE "hashtags")
          /\ hist' = [hist EXCEPT !.absorbed = @ \/ raised]
    /\ UNCHANGED <<loop, is_running, cfg, current_time, last_post_time,
                   post_count, first_run>>
    /\ UNCHANGED <<notLoopVars, dmVars>>

\* line 238: the for loop over the hashtags is used up
HashtagsDone ==
    /\ pc = "hashtags"
    /\ hashtag_idx >= NumHashtags
    /\ pc' = StepAfter(loop, "hashtags")
    /\ UNCHANGED <<clock, loop, is_running, cfg, current_time, last_post_time,
                   post_count, first_run, hashtag_idx, iter_steps, hist>>
    /\ UNCHANGED <<notLoopVars, dmVars>>

\* line 242: run_forever always handles the DMs; lines 207-208: schedule_auto_posts
\* does when they are enabled and current_time falls in the reply window
DmDue ==
    \/ loop = "run_forever"
    \/ cfg.dm_enabled /\ current_time % cfg.reply_interval < 60

\* the DM step is not due
DmSkip ==
    /\ pc = "dms"
    /\ ~DmDue
    /\ pc' = StepAfter(loop, "dms")
    /\ iter_steps' = Append(iter_steps, "dm_check")
    /\ UNCHANGED <<clock, loop, is_running, cfg, current_time, last_post_time,
                   post_count, first_run, hashtag_idx, hist>>
    /\ UNCHANGED <<notLoopVars, dmVars>>

\* handle_direct_messages run as a whole: it replies to the ids of `done` and
\* records them, and then returns, or raises when `raises`
HandleDirectMessages(done, raises) ==
    /\ pc = "dms"
    /\ DmDue
    /\ done \subseteq Unreplied(dm_inbox, replied_dms)
    /\ raises \/ done = Unreplied(dm_inbox, replied_dms)
    /\ \E d \in CallSeconds : clock' = clock + d
    /\ dm_replies' = [i \in DmIds |-> IF i \in done THEN dm_replies[i] + 1
                                       ELSE dm_replies[i]]
    /\ replied_dms' = replied_dms \cup done
    /\ dm_file' = dm_file \cup done
    /\ pc' = (IF raises THEN OnError ELSE StepAfter(loop, "dms"))
    /\ iter_steps' = Append(iter_steps, "dm_check")
    /\ hist' = [hist EXCEPT !.failed = @ \/ raises]
    /\ UNCHANGED <<loop, is_running, cfg, current_time, last_post_time, post_count,
                   first_run, hashtag_idx>>
    /\ UNCHANGED <<dm_inbox, dm_pc, dm_todo, dm_cur, crashes>>
    /\ UNCHANGED notLoopVars

\* line 212
LikesDue == current_time % 300 < 60

\* the 300-second wall-clock window of the time t, and the one that is observed:
\* the first window after midnight
LikeWindow(t) == t \div 300
ObservedWindow == LikeWindow(Midnight)
LikeObserved(t) == IF LikeWindow(t) = ObservedWindow THEN 1 ELSE 0

\* lines 212-213: auto_like_trending_posts returns or raises, or is not due
AutoLike ==
    /\ pc = "likes"
    /\ \/ /\ ~LikesDue
          /\ pc' = StepAfter(loop, "likes")
          /\ iter_steps' = Append(iter_steps, "like_check")
          /\ UNCHANGED <<clock, hist>>
       \/ /\ LikesDue
          /\ \E d \in CallSeconds : clock' = clock + d
          /\ pc' = StepAfter(loop, "likes")
          /\ iter_steps' = iter_steps \o <<"like_check", "like">>
          /\ hist' = [hist EXCEPT !.likes = @ + LikeObserved(current_time)]
       \/ /\ LikesDue
          /\ \E d \in CallSeconds : clock' = clock + d
          /\ pc' = OnError
          /\ iter_steps' = Append(iter_steps, "like_check")
          /\ hist' = [hist EXCEPT !.failed = TRUE,
                                  !.likes = @ + LikeObserved(current_time)]
    /\ UNCHANGED <<loop, is_running, cfg, current_time, last_post_time, post_count,
                   first_run, hashtag_idx>>
    /\ UNCHANGED <<notLoopVars, dmVars>>

\* line 245: datetime.now().hour == 0 and datetime.now().minute == 0
IsMidnightMinute(t) == Hour(t) = 0 /\ Minute(t) = 0

\* lines 244-246: the reset of post_count, read off the clock when the step runs
ResetCheck ==
    /\ pc = "reset"
    /\ IF IsMidnightMinute(clock)
       THEN /\ post_count' = 0
            /\ hist' = [hist EXCEPT !.resets = @ + 1]
       ELSE UNCHANGED <<post_count, hist>>
    /\ pc' = StepAfter(loop, "reset")
    /\ iter_steps' = Append(iter_steps, "reset_check")
    /\ UNCHANGED <<clock, loop, is_running, cfg, current_time, last_post_time,
                   first_run, hashtag_idx>>
    /\ UNCHANGED <<notLoopVars, dmVars>>

\* lines 248, 215: await asyncio.sleep(60)
IterationSleep ==
    /\ pc = "sleep"
    /\ \E j \in Jitter : clock' = clock + 60 + j
    /\ pc' = "head"
    /\ UNCHANGED <<loop, is_running, cfg, current_time, last_post_time, post_count,
                   first_run, hashtag_idx, iter_steps, hist>>
    /\ UNCHANGED <<notLoopVars, dmVars>>

\* lines 252, 219: await asyncio.sleep(300) in the except handler
ErrorCooldown ==
    /\ pc = "failed"
    /\ \E j \in Jitter : clock' = clock + 300 + j
    /\ pc' = "head"
    /\ UNCHANGED <<loop, is_running, cfg, current_time, last_post_time, post_count,
                   first_run, hashtag_idx, iter_steps, hist>>
    /\ UNCHANGED <<notLoopVars, dmVars>>

\* something outside the loop sets is_running to False while run_forever runs
Shutdown ==
    /\ loop = "run_forever"
    /\ pc \notin {"start", "done"}
    /\ is_running
    /\ is_running' = FALSE
    /\ UNCHANGED <<clock, loop, pc, cfg, current_time, last_post_time, post_count,
                   first_run, hashtag_idx, iter_steps, hist>>
    /\ UNCHANGED <<notLoopVars, dmVars>>

\* ------------------------------------------- monitor_hashtag, step by step
RECURSIVE SumSeq(_)
SumSeq(s) == IF s = <<>> THEN 0 ELSE s[1] + SumSeq(SubSeq(s, 2, Len(s)))

\* d more seconds since last_request_time, as line 103 and line 109 see them
Elapse(td, d) == Min(td + d, 60)

MonIdle ==
    /\ m_pc = "idle"
    /\ m_posts = 0
    /\ m_trace = <<>>

\* line 239: run_forever calls monitor_hashtag(hashtag)
MonCall ==
    /\ m_pc = "limit"
    /\ m_posts = 0
    /\ m_trace = <<>>

\* The calls made so far, in order.  The generate_content calls of the
\* generate_entertainment_response call in flight are its g_outcomes.
OutboundTrace ==
    m_trace \o [i \in 1..(IF m_pc = "generate" THEN Len(g_outcomes) ELSE 0) |-> "generate"]

\* line 257: await self._handle_rate_limit(), the only call of it in the module
MonLimit ==
    /\ m_pc = "limit"
    /\ \E j1 \in Jitter, j2 \in Jitter :
          LET r == HandleRateLimit(time_diff, request_count, j1, j2)
          IN  /\ time_diff' = r.time_diff
              /\ request_count' = r.request_count
    /\ m_trace' = Append(m_trace, "limit")
    /\ m_pc' = "search"
    /\ UNCHANGED <<win_age, win_count, m_posts>>
    /\ UNCHANGED <<genVars, loopVars, dmVars, healthVars>>

\* line 258: search_hashtag(hashtag, limit=5) returns n posts, or raises, which
\* the except of line 267 catches
MonSearch(n, raises) ==
    /\ m_pc = "search"
    /\ raises => n = 0
    /\ \E d \in CallSeconds : time_diff' = Elapse(time_diff, d)
    /\ m_trace' = Append(m_trace, "search")
    /\ m_posts' = n
    /\ m_pc' = (IF raises THEN "returned" ELSE "posts")
    /\ UNCHANGED <<request_count, win_age, win_count>>
    /\ UNCHANGED <<genVars, loopVars, dmVars, healthVars>>

\* lines 260-261: random.random() >= 0.3, the post gets no response
MonSkipPost ==
    /\ m_pc = "posts"
    /\ m_posts > 0
    /\ m_posts' = m_posts - 1
    /\ UNCHANGED <<m_pc, m_trace>>
    /\ UNCHANGED <<rlVars, genVars, loopVars, dmVars, healthVars>>

\* lines 261-262: random.random() < 0.3, generate_entertainment_response is
\* called with post['content'] alone: status is None and max_retries is 3
MonRespond ==
    /\ m_pc = "posts"
    /\ m_posts > 0
    /\ m_pc' = "generate"
    /\ g_pc' = "clean"
    /\ g_args' = [max_retries |-> 3, has_status |-> FALSE, n_media |-> 0]
    /\ g_fetched' = <<>>
    /\ g_attempt' = 0
    /\ g_outcomes' = <<>>
    /\ g_sleeps' = <<>>
    /\ g_result' = Unset
    /\ UNCHANGED <<m_posts, m_trace>>
    /\ UNCHANGED <<rlVars, loopVars, dmVars, healthVars>>

\* line 262 raises (line 122 is outside the try of the generator): the except of
\* line 267 catches it and the call returns
MonGenRaised ==
    /\ m_pc = "generate"
    /\ g_pc = "raised"
    /\ m_trace' = OutboundTrace
    /\ m_pc' = "returned"
    /\ UNCHANGED m_posts
    /\ UNCHANGED <<rlVars, genVars, loopVars, dmVars, healthVars>>

\* line 263: reply_to_post(post['id'], response) returns or raises
MonReply(raises) ==
    /\ m_pc = "generate"
    /\ g_pc = "returned"
    /\ \E d \in CallSeconds : time_diff' = Elapse(time_diff, SumSeq(g_sleeps) + d)
    /\ m_trace' = Append(OutboundTrace, "reply")
    /\ m_pc' = (IF raises THEN "returned" ELSE "pause")
    /\ UNCHANGED <<request_count, win_age, win_count, m_posts>>
    /\ UNCHANGED <<genVars, loopVars, dmVars, healthVars>>

\* line 265: await asyncio.sleep(30), and the for loop goes to the next post
MonPause ==
    /\ m_pc = "pause"
    /\ \E j \in Jitter : time_diff' = Elapse(time_diff, 30 + j)
    /\ m_posts' = m_posts - 1
    /\ m_pc' = "posts"
    /\ UNCHANGED <<request_count, win_age, win_count, m_trace>>
    /\ UNCHANGED <<genVars, loopVars, dmVars, healthVars>>

\* line 260: the for loop over the posts is used up
MonDone ==
    /\ m_pc = "posts"
    /\ m_posts = 0
    /\ m_pc' = "returned"
    /\ UNCHANGED <<m_posts, m_trace>>
    /\ UNCHANGED <<rlVars, genVars, loopVars, dmVars, healthVars>>

\* ------------------------------------------------------ the health endpoint
HealthDown ==
    /\ h_listening = FALSE
    /\ h_response = "none"

\* lines 270-272: health_check takes no parameter.  The router calls a handler
\* with the request, which raises TypeError before line 272 is reached, and the
\* server answers 500.
HealthCheck(n_args) == IF n_args = 0 THEN "200 OK" ELSE "500"

\* lines 274-280: start_health_check registers the route and starts the site on
\* localhost:8080.  No line of the module calls it: lines 282-288 construct the
\* bot and run run_forever, nothing else.
StartHealthCheck ==
    /\ ~h_listening
    /\ h_listening' = TRUE
    /\ UNCHANGED h_response
    /\ UNCHANGED <<rlVars, genVars, loopVars, dmVars, monVars>>

\* a client sends GET /health to localhost:8080 once line 288 has started the
\* loop: the site answers when it listens, the connection is refused when not
GetHealth ==
    /\ pc # "start"
    /\ h_response' = (IF h_listening THEN HealthCheck(1) ELSE "refused")
    /\ UNCHANGED h_listening
    /\ UNCHANGED <<rlVars, genVars, loopVars, dmVars, monVars>>

\* --------------------------------------------------------- specifications
\* The rate limiter called again and again by one caller, as monitor_hashtag
\* does from the single scheduler loop.
LoopIdle ==
    LoopStart("run_forever", Midnight,
              [auto_post_interval |-> 1800, max_daily_posts |-> 48,
               dm_enabled |-> FALSE, reply_interval |-> 300])
InitRL == RLStart /\ GenIdle /\ LoopIdle /\ DmIdle({}) /\ MonIdle /\ HealthDown
NextRL == RateLimitCall \/ CallerIdle
SpecRL == InitRL /\ [][NextRL]_vars

\* One call of generate_entertainment_response, for every value of its
\* arguments within the bounds.
InitGen ==
    /\ RLStart /\ LoopIdle /\ DmIdle({}) /\ MonIdle /\ HealthDown
    /\ \E max_retries \in 0..MaxRetriesArg, n_media \in 0..MaxMedia, has_status \in BOOLEAN :
          /\ has_status \/ n_media = 0
          /\ GenCall(max_retries, has_status, n_media)
NextGen ==
    \/ GenClean
    \/ GenLookup
    \/ GenDownload
    \/ \E text \in ResponseTexts : GenAttemptOk(text)
    \/ GenAttemptFail
    \/ GenBackoff
    \/ GenFallback
    \/ GenLoopEnd
SpecGen == InitGen /\ [][NextGen]_vars

\* The scheduler loop from the construction of the bot on, for the start times
\* and configurations below, until the horizon.
StartTimes == {Midnight - 63}
Configs ==
    {[auto_post_interval |-> c[1], max_daily_posts |-> c[2], dm_enabled |-> e,
      reply_interval |-> 300] :
        c \in {<<1800, 48>>, <<0, 1>>, <<0, 2>>, <<120, 2>>}, e \in BOOLEAN}
Init ==
    /\ RLStart /\ GenIdle /\ MonIdle /\ HealthDown
    /\ \E which \in {"run_forever", "schedule_auto_posts"}, t \in StartTimes, c \in Configs :
          /\ which = "run_forever" => c.dm_enabled
          /\ LoopStart(which, t, c)
    /\ \E inbox \in {{}, {1}} : DmIdle(inbox)
Next ==
    \/ LoopEnter
    \/ LoopHead
    \/ PostSkip
    \/ PostOk
    \/ PostRaises
    \/ MonitorHashtag
    \/ HashtagsDone
    \/ DmSkip
    \/ \E done \in SUBSET DmIds, raises \in BOOLEAN : HandleDirectMessages(done, raises)
    \/ AutoLike
    \/ ResetCheck
    \/ IterationSleep
    \/ ErrorCooldown
    \/ Shutdown
Spec == Init /\ [][Next]_vars

\* The scheduler loop with the fairness of the event loop: a coroutine that can
\* go on does go on.
SpecLive == Spec /\ WF_vars(Next)

\* handle_direct_messages scan after scan, with messages arriving and the process
\* stopped and started again at any point.
InitDM == RLStart /\ GenIdle /\ LoopIdle /\ DmIdle({}) /\ MonIdle /\ HealthDown
NextDM ==
    \/ \E id \in DmIds : DmArrive(id)
    \/ DmScan
    \/ \E id \in DmIds : DmReply(id)
    \/ DmRecord
    \/ DmDone
    \/ ProcessStop
    \/ ProcessStart
SpecDM == InitDM /\ [][NextDM]_vars

\* One call of monitor_hashtag, with the generate_entertainment_response calls
\* it makes, for every search result within the bound.
InitMon == RLStart /\ GenIdle /\ LoopIdle /\ DmIdle({}) /\ MonCall /\ HealthDown
NextMon ==
    \/ MonLimit
    \/ \E n \in 0..MaxPosts, raises \in BOOLEAN : MonSearch(n, raises)
    \/ MonSkipPost
    \/ MonRespond
    \/ GenClean
    \/ \E text \in ResponseTexts : GenAttemptOk(text)
    \/ GenAttemptFail
    \/ GenBackoff
    \/ GenFallback
    \/ MonGenRaised
    \/ \E raises \in BOOLEAN : MonReply(raises)
    \/ MonPause
    \/ MonDone
SpecMon == InitMon /\ [][NextMon]_vars

\* The process of lines 282-288 with a client that polls the health endpoint
\* while the loop runs.
NextHealth ==
    \/ Next
    \/ GetHealth
SpecHealth == Init /\ [][NextHealth]_vars

\* ------------------------------------------------------------------ claims
\* C1: at most 30 requests are let through in any rolling 60-second window
\* [t, t + 60), windows that straddle a reset of request_count included, for
\* every timing of the calls of the one caller.
C1_AtMost30PerWindow == win_count <= 30
C1_Witness == win_count = 30 /\ request_count < 30

\* C2: generate_entertainment_response always returns a string of at most 240
\* characters, never None, whatever max_retries is.
C2_ReturnsShortString ==
    g_pc = "returned" => g_result.kind = "str" /\ Len(g_result.text) <= 240

\* C3: with the default max_retries = 3 the call makes at most 3 generate_content
\* calls, none after a success; it returns the reply of the first successful call,
\* and the fallback text when all 3 calls fail; until it returns or raises it can
\* always take a step.
Succeeded == {i \in 1..Len(g_outcomes) : g_outcomes[i].ok}
C3_FirstSuccessOrFallback ==
    g_args.max_retries = 3 =>
        /\ Len(g_outcomes) <= 3
        /\ \A i \in Succeeded : i = Len(g_outcomes) /\ g_pc = "returned"
        /\ g_pc = "returned" =>
              IF Succeeded # {}
              THEN g_result = Str(Strip(Take(g_outcomes[Len(g_outcomes)].text, 240)))
              ELSE Len(g_outcomes) = 3 /\ g_result = Str(FallbackText)
        /\ g_pc \in {"returned", "raised"} \/ ENABLED NextGen
C3_Witness ==
    /\ g_args.max_retries = 3
    /\ g_pc = "returned"
    /\ Len(g_outcomes) = 3
    /\ Succeeded = {}
    /\ g_result = Str(FallbackText)

\* C4: no call of generate_entertainment_response ends in an exception.
C4_NeverRaises == g_pc # "raised"

\* C5: in every state of the scheduler loop 0 <= post_count <= max_daily_posts.
C5_PostCountWithinCap == 0 <= post_count /\ post_count <= cfg.max_daily_posts
C5_Witness ==
    /\ hist.resets > 0
    /\ post_count = cfg.max_daily_posts
    /\ hist.posts > post_count
    /\ pc = "post" /\ PostDue

\* C6: post_count is reset exactly once per local calendar day: when run_forever
\* has run through the minute after midnight without any error, it has reset
\* post_count once, and it never resets twice for one midnight.
C6_ResetOncePerDay ==
    /\ hist.resets <= 1
    /\ (loop = "run_forever" /\ pc = "head" /\ ~hist.failed
            /\ clock >= Midnight + 60)
        => hist.resets = 1

\* C7 as stated: with auto_post_interval = 0 and no reset, k iterations of
\* run_forever produce exactly min(k, max_daily_posts) posts.
IterationsPastPost == IF pc = "post" THEN hist.iterations - 1 ELSE hist.iterations
C8_NoIdRepliedTwice == \A id \in DmIds : dm_replies[id] <= 1

\* C9: a step that raises never ends the loop: the loop ends only when
\* is_running is false; the handler sleeps at least 300 s and goes back to the
\* loop condition, and it always gets there.
C9_FailureNeverEndsLoop ==
    /\ [](pc = "done" => loop = "run_forever" /\ ~is_running)
    /\ [][pc = "failed" /\ pc' # pc => pc' = "head" /\ clock' >= clock + 300]_vars
    /\ (pc = "failed") ~> (pc = "head")
C9_Witness == hist.failed /\ pc = "post" /\ is_running

\* C10: every iteration that reaches its sleep has run the four steps post-check,
\* hashtag-monitor, DM-check, auto-like.
StepSet == {iter_steps[i] : i \in 1..Len(iter_steps)}
C10_AllFourStepsRun ==
    pc = "sleep" => {"post_check", "hashtag", "dm_check", "like_check"} \subseteq StepSet

\* C10, the order the code does keep: the steps of an iteration run in the order
\* post-check, the three hashtags, DM handling, reset check in run_forever, and
\* post-check, DM-check, auto-like in schedule_auto_posts; an iteration that
\* reaches its sleep has run each of them once.
IsCheck(step) == step \notin {"post", "like"}
StepsOf(which) ==
    IF which = "run_forever"
    THEN <<"post_check", "hashtag", "hashtag", "hashtag", "dm_check", "reset_check">>
    ELSE <<"post_check", "dm_check", "like_check">>
C10_StepsInLoopOrder ==
    LET done == SelectSeq(iter_steps, IsCheck)
    IN  /\ Len(done) <= Len(StepsOf(loop))
        /\ done = SubSeq(StepsOf(loop), 1, Len(done))
        /\ pc = "sleep" => done = StepsOf(loop)
C10_Witness ==
    /\ loop = "run_forever" /\ pc = "sleep"
    /\ SelectSeq(iter_steps, IsCheck) = StepsOf("run_forever")

\* C11: every outbound call (hashtag search, generation call, reply to a post)
\* is directly preceded by a completed _handle_rate_limit call of its own, so
\* that a completed rate-limit call lies between any two consecutive outbound
\* calls.
C11_EveryCallRateLimited ==
    \A i \in 1..Len(OutboundTrace) :
        OutboundTrace[i] # "limit" => i > 1 /\ OutboundTrace[i - 1] = "limit"

\* C12, the image handling alone: every attachment is fetched at most once, and
\* exactly once by the time the retry loop runs; every generation call carries
\* exactly the images that were fetched, which makes it a text-only call when
\* there is none.
C12_CallsCarryFetchedImages ==
    /\ Len(g_fetched) <= g_args.n_media
    /\ (g_args.has_status /\ g_pc \in {"loop", "except", "returned"})
          => Len(g_fetched) = g_args.n_media
    /\ \A i \in 1..Len(g_outcomes) : g_outcomes[i].images = Images

C12_Witness ==
    /\ g_args.n_media = 2 /\ g_fetched = <<FALSE, TRUE>>
    /\ g_pc = "returned" /\ Len(g_outcomes) = 2
    /\ g_outcomes[2].ok /\ g_outcomes[2].images = {2}

\* C13: once the process has started the bot, every GET /health is answered
\* with 200 and the body "OK", in whatever state the scheduler loop is.
C13_HealthAnswersOk == h_response \in {"none", "200 OK"}

\* C14 as stated: the waits of a call are, in order, 5 s before the first
\* attempt and then 10 x n s between failed attempt n and attempt n + 1, and
\* nothing after the last failed attempt.
C14_WaitsAsStated ==
    \A i \in 1..Len(g_sleeps) : g_sleeps[i] = (IF i = 1 THEN 5 ELSE 10 * (i - 1))

\* C14 as amended: a 5 s wait precedes every attempt, the first one and each
\* retry; after failed attempt n that is not the last the handler waits 10 x n s
\* more, so that 10 x n + 5 s lie between failed attempt n and attempt n + 1;
\* after the last failed attempt the fallback is returned with no further wait.
C14_FiveBeforeEveryAttempt ==
    LET n == Len(g_outcomes)
    IN  /\ \A i \in 1..Len(g_sleeps) :
              g_sleeps[i] = (IF i % 2 = 1 THEN 5 ELSE 10 * (i \div 2))
        /\ Len(g_sleeps) = (IF g_pc \in {"except", "returned"} /\ n > 0
                            THEN 2 * n - 1 ELSE 2 * n)
        /\ (g_pc = "returned" /\ g_result = Str(FallbackText) /\ Succeeded = {})
              => n = g_args.max_retries /\ g_sleeps[Len(g_sleeps)] = 5
C14_Witness ==
    /\ g_pc = "returned"
    /\ g_result = Str(FallbackText)
    /\ g_sleeps = <<5, 10, 5, 20, 5>>

\* C15: run_forever ends only through is_running being false: while is_running
\* is true the loop never exits, whatever fails; once is_running is false the
\* loop starts no further iteration, finishes the iteration in flight with its
\* sleep (or its cooldown), and then ends at the loop condition; and it does
\* get there.
C15_EndsOnlyAfterShutdown ==
    /\ [](is_running => pc # "done")
    /\ [][(loop = "run_forever" /\ pc # "start" /\ ~is_running)
             => hist'.iterations = hist.iterations]_vars
    /\ [][(loop = "run_forever" /\ ~is_running /\ pc \notin {"start", "head"}
             /\ pc' = "head")
             => pc \in {"sleep", "failed"} /\ clock' >= clock + 60]_vars
    /\ [][(pc # "done" /\ pc' = "done")
             => pc = "head" /\ ~is_running /\ clock' = clock]_vars
    /\ (loop = "run_forever" /\ pc # "start" /\ ~is_running) ~> (pc = "done")
C15_Witness ==
    /\ loop = "run_forever" /\ pc = "done" /\ ~is_running
    /\ hist.iterations >= 2 /\ hist.failed

\* C16: a monitor_hashtag call that fails does not surface to run_forever: the
\* for loop goes on with the remaining hashtags, the DM handling and the
\* midnight check of the iteration run, and the iteration reaches its 60 s
\* sleep; it gets the 300 s cooldown only when the DM handling itself raises.
C16_HashtagFailureAbsorbed ==
    /\ [][(hist'.absorbed /\ ~hist.absorbed) => pc' = "hashtags"]_vars
    /\ [](hist.absorbed =>
            /\ pc \in {"dms", "reset", "sleep", "failed"} => hashtag_idx = NumHashtags
            /\ pc = "failed" => iter_steps[Len(iter_steps)] = "dm_check"
            /\ pc = "sleep" => SelectSeq(iter_steps, IsCheck) = StepsOf("run_forever"))
    /\ [][(hist.absorbed /\ pc = "sleep" /\ pc' # pc)
             => pc' = "head" /\ clock' \in {clock + 60 + j : j \in Jitter}]_vars
    /\ (hist.absorbed /\ pc = "hashtags")
          ~> (pc = "sleep" \/ (pc = "failed" /\ iter_steps[Len(iter_steps)] = "dm_check"))
C16_Witness ==
    /\ loop = "run_forever" /\ pc = "sleep"
    /\ hist.absorbed /\ ~hist.failed
    /\ SelectSeq(iter_steps, IsCheck) = StepsOf("run_forever")

\* C17: while schedule_auto_posts runs, auto-like is called exactly once in
\* every 300-second wall-clock window: never twice in the observed window, and
\* once when the loop has run through the whole window, with no step raising.
C17_LikeOncePerWindow ==
    /\ hist.likes <= 1
    /\ (loop = "schedule_auto_posts" /\ ~hist.failed /\ clock >= Midnight + 300)
          => hist.likes = 1

\* C17, the half the code does keep: auto-like is never called twice in one
\* window, and a loop that took its time in [Midnight, Midnight + 60) called it.
C17_NeverTwicePerWindow == hist.likes <= 1
C17_Witness ==
    /\ loop = "schedule_auto_posts" /\ ~hist.failed
    /\ clock >= Midnight + 300 /\ hist.likes = 1

\* C18: when create_scheduled_post raises, post_count and last_post_time keep
\* their values, so the post stays due and the daily quota is not used; no
\* other step of the iteration runs, and the loop goes from the handler to the
\* loop condition after the 300 s cooldown.
C18_FailedPostCommitsNothing ==
    /\ [][(pc = "post" /\ pc' = "failed")
             => /\ post_count' = post_count
                /\ last_post_time' = last_post_time
                /\ hist'.posts = hist.posts
                /\ iter_steps' = <<"post_check">>]_vars
    /\ []((pc = "failed" /\ iter_steps = <<"post_check">>)
             => PostDue /\ UnderDailyCap(post_count, cfg.max_daily_posts))
    /\ [][(pc = "failed" /\ iter_steps = <<"post_check">> /\ pc' # pc)
             => /\ pc' = "head"
                /\ clock' >= clock + 300
                /\ iter_steps' = iter_steps
                /\ post_count' = post_count
                /\ hist'.resets = hist.resets]_vars
C18_Witness ==
    /\ loop = "run_forever" /\ pc = "head"
    /\ hist.post_failed /\ iter_steps = <<"post_check">>
    /\ hist.posts = 1 /\ post_count = 1

\* C19: in run_forever the iteration of a post starts at least
\* auto_post_interval seconds after the start of the iteration of the post
\* before it, and that of the first post at least auto_post_interval seconds
\* after the construction of the bot; no iteration posts twice.
C19_PostsAtLeastIntervalApart ==
    /\ [][(loop = "run_forever" /\ hist'.posts = hist.posts + 1)
             => /\ current_time - hist.prev_post >= cfg.auto_post_interval
                /\ hist'.prev_post = current_time]_vars
    /\ [](Cardinality({i \in 1..Len(iter_steps) : iter_steps[i] = "post"}) <= 1)
C19_Witness ==
    /\ loop = "run_forever"
    /\ cfg.auto_post_interval = 120
    /\ hist.posts = 2
    /\ \E t \in StartTimes : hist.prev_post >= t + 2 * cfg.auto_post_interval

=============================================================================
